---- MODULE Spec2Model ----
(***************************************************************************)
(* Model of the content generation pipeline of src/de2.py:                 *)
(* BlogGeneratorApp.__init__ (model handle), the lru_cache(maxsize=100)    *)
(* wrapper around BlogGeneratorApp.generate_llama_blog, the body of that   *)
(* method, and the part of BlogGeneratorApp.run that collects the inputs   *)
(* and calls it.                                                           *)
(*                                                                         *)
(* Strings that are inspected character by character (the topic) are       *)
(* sequences of one-character strings; all other strings are atoms.        *)
(* no_words is an integer (the isinstance test of line 152 is not          *)
(* modelled: every word count of the model is an int).                     *)
(***************************************************************************)
EXTENDS Integers, Sequences, FiniteSets, TLC

\* ---------------------------------------------------------------- bounds
\* number of BlogGeneratorApp() constructions explored
MaxApps == 2
\* number of operations (main() runs and direct method calls) explored
MaxCalls == 2

\* ------------------------------------------------------ program constants
\* @lru_cache(maxsize=100)
maxsize == 100
\* no_words < 100 or no_words > 1000; slider min_value / max_value
MinWords == 100
MaxWords == 1000
\* slider value=250
SliderDefault == 250

\* Python's None (return value of every failing path, self.llm after a
\* failed initialisation)
None == "None"

\* ------------------------------------------------------------------ inputs
\* what self.llm(prompt) can return: the model is a black box
Texts == {"textA", "textB"}
\* outcome of one self.llm(prompt) call: a text, or an exception
Responses == Texts \cup {"raise"}

\* the values of the blog_styles dict of run()
blog_styles == {"technical", "professional", "casual", "academic", "creative"}
\* style arguments a caller of the method can pass
StyleArgs == blog_styles \cup {"", "poetic"}

\* topics as typed (or passed): empty, blank, plain, padded
RawTopics == {<< >>, <<" ">>, <<"x">>, <<" ", "x", " ">>}

\* word counts a caller of the method can pass (both sides of both limits;
\* 101 is the oldest key of a filled cache)
WordArgs == {99, 100, 101, 1000, 1001}
\* positions of the slider used (min, default)
SliderWords == {MinWords, SliderDefault}

\* argument triples of direct calls of generate_llama_blog
Requests ==
    ({<<"x">>} \X WordArgs \X {"casual"})
    \cup ({<<"x">>} \X {101} \X StyleArgs)
    \cup (RawTopics \X {101} \X {"casual"})
    \cup {<< << >>, 99, "" >>}

\* widget values of one run(): text_input, selectbox (already mapped), slider
UIInputs ==
    (RawTopics \X {"casual"} \X {SliderDefault})
    \cup ({<<"x">>} \X blog_styles \X {SliderDefault})
    \cup ({<<"x">>} \X {"casual"} \X SliderWords)

\* the calls explored on a filled cache: its two oldest keys (word counts 101
\* and 102), two new keys, a failing call
FullRequests == {<<"x">>} \X {99, 100, 101, 102, 1000} \X {"casual"}

FullUIInputs == {<< >>, <<"x">>} \X {"casual"} \X {SliderDefault}

VARIABLES
    apps,     \* apps[i]: self.llm of the i-th constructed BlogGeneratorApp
    cache,    \* the lru_cache of generate_llama_blog, least recently used first
    clock,    \* number of calls of the wrapped method so far
    nhits,    \* number of cache hits so far
    firstKey, \* key of the first entry ever inserted
    ncalls,   \* number of operations so far
    last,     \* the most recent operation and its outcome
    prev      \* the operation before it

vars == <<apps, cache, clock, nhits, firstKey, ncalls, last, prev>>

\* ------------------------------------------------------------- text.strip()
IsSpace(c) == c = " "

RECURSIVE lstrip(_)
lstrip(s) == IF s = << >> THEN << >>
             ELSE IF IsSpace(Head(s)) THEN lstrip(Tail(s)) ELSE s

RECURSIVE rstrip(_)
rstrip(s) == IF s = << >> THEN << >>
             ELSE IF IsSpace(s[Len(s)]) THEN rstrip(SubSeq(s, 1, Len(s) - 1)) ELSE s

strip(s) == rstrip(lstrip(s))

sanitize_input_identity(text) == text

sanitize_input(text) == strip(text)

\* --------------------------------------------------------------- lru_cache
\* the key of a call: the positional arguments, self included
make_key(self, input_text, no_words, blog_style) ==
    <<self, input_text, no_words, blog_style>>

CacheKeys(c) == {c[i].key : i \in 1..Len(c)}

\* position of the entry of key k, 0 when absent
CacheIndex(c, k) ==
    IF k \in CacheKeys(c) THEN CHOOSE i \in 1..Len(c) : c[i].key = k ELSE 0

\* a hit with no promotion: the entry stays where it is
LruHitInPlace(c, i, now) ==
    [j \in 1..Len(c) |-> IF j = i THEN [c[i] EXCEPT !.used = now] ELSE c[j]]

\* a hit: the entry moves to the most-recently-used end
LruHit(c, i, now) ==
    SubSeq(c, 1, i - 1) \o SubSeq(c, i + 1, Len(c))
        \o <<[c[i] EXCEPT !.used = now]>>

\* a miss that forgets its result
LruMissNoStore(c, k, v, now) == c

\* a miss that makes room one entry too late
LruMissLate(c, k, v, now) ==
    (IF Len(c) > maxsize THEN Tail(c) ELSE c)
        \o <<[key |-> k, val |-> v, stamp |-> now, used |-> now]>>

\* a miss: the result is stored, the least recently used entry making room
LruMiss(c, k, v, now) ==
    (IF Len(c) >= maxsize THEN Tail(c) ELSE c)
        \o <<[key |-> k, val |-> v, stamp |-> now, used |-> now]>>

\* -------------------------------------------------- generate_llama_blog body
WordCountOKStrict(no_words) == no_words > MinWords /\ no_words < MaxWords

WordCountOK(no_words) == ~(no_words < MinWords \/ no_words > MaxWords)

\* a body without the self.llm test: calling None raises inside the try
BodyNoLlmCheck(llm, input_text, no_words, blog_style, resp) ==
    IF input_text = << >> \/ blog_style = ""
    THEN [ret |-> None, msg |-> "RequiredFields", invoked |-> FALSE]
    ELSE IF ~WordCountOK(no_words)
    THEN [ret |-> None, msg |-> "WordCountRange", invoked |-> FALSE]
    ELSE IF llm = None \/ resp = "raise"
    THEN [ret |-> None, msg |-> "InferenceException", invoked |-> llm # None]
    ELSE [ret |-> resp, msg |-> "none", invoked |-> TRUE]

\* ret: the value returned; msg: what st.error shows; invoked: self.llm called
Body(llm, input_text, no_words, blog_style, resp) ==
    IF llm = None
    THEN [ret |-> None, msg |-> "LLMNotInitialized", invoked |-> FALSE]
    ELSE IF input_text = << >> \/ blog_style = ""
    THEN [ret |-> None, msg |-> "RequiredFields", invoked |-> FALSE]
    ELSE IF ~WordCountOK(no_words)
    THEN [ret |-> None, msg |-> "WordCountRange", invoked |-> FALSE]
    ELSE IF resp = "raise"
    THEN [ret |-> None, msg |-> "InferenceException", invoked |-> TRUE]
    ELSE [ret |-> resp, msg |-> "none", invoked |-> TRUE]

\* --------------------------------------------------------- operation records
NoOp == [op |-> "none", self |-> 0, raw |-> << >>, topic |-> << >>,
         words |-> 0, style |-> "", called |-> FALSE, hit |-> FALSE,
         invoked |-> FALSE, ret |-> None, msg |-> "none", ui |-> "none",
         evStamp |-> 0, evUsed |-> 0]

\* one call self.generate_llama_blog(input_text, no_words, blog_style) through
\* the wrapper: the record of the call and the cache after it
Call(c, now, op, self, llm, raw, input_text, no_words, blog_style, resp) ==
    LET k == make_key(self, input_text, no_words, blog_style)
        i == CacheIndex(c, k)
        b == Body(llm, input_text, no_words, blog_style, resp)
        base == [NoOp EXCEPT !.op = op, !.self = self, !.raw = raw,
                             !.topic = input_text, !.words = no_words,
                             !.style = blog_style, !.called = TRUE]
    IN  IF i # 0
        THEN [rec |-> [base EXCEPT !.hit = TRUE, !.ret = c[i].val],
              key |-> k,
              cache |-> LruHit(c, i, now)]
        ELSE [rec |-> [base EXCEPT !.ret = b.ret, !.msg = b.msg,
                                   !.invoked = b.invoked,
                                   !.evStamp = IF Len(c) >= maxsize
                                               THEN c[1].stamp ELSE 0,
                                   !.evUsed = IF Len(c) >= maxsize
                                              THEN c[1].used ELSE 0],
              key |-> k,
              cache |-> LruMiss(c, k, b.ret, now)]

\* what run() shows after the call returned
Shown(rec) == [rec EXCEPT !.ui = IF rec.ret # None THEN "blog" ELSE "nothing"]

\* --------------------------------------------------------------- the state
\* the state after the first app = BlogGeneratorApp(): the model loaded or not
Init ==
    /\ apps \in {<<"llm">>, <<None>>}
    /\ cache = << >>
    /\ clock = 0
    /\ nhits = 0
    /\ firstKey = << >>
    /\ ncalls = 0
    /\ last = NoOp
    /\ prev = NoOp

\* the cache after n successful calls on one app with n distinct word counts
Filled(n) ==
    [j \in 1..n |-> [key |-> make_key(1, <<"x">>, MinWords + j, "casual"),
                     val |-> "textA", stamp |-> j, used |-> j]]

InitFull ==
    /\ apps = <<"llm">>
    /\ \E n \in {maxsize - 1, maxsize} :
          /\ cache = Filled(n)
          /\ clock = n
    /\ nhits = 0
    /\ firstKey = make_key(1, <<"x">>, MinWords + 1, "casual")
    /\ ncalls = 0
    /\ last = NoOp
    /\ prev = NoOp

\* ----------------------------------------------------------------- actions
ApplyCall(r) ==
    /\ cache' = r.cache
    /\ clock' = clock + 1
    /\ nhits' = IF r.rec.hit THEN nhits + 1 ELSE nhits
    /\ firstKey' = IF clock = 0 THEN r.key ELSE firstKey

\* a caller invokes app.generate_llama_blog(input_text, no_words, blog_style)
Generate(self, req, resp) ==
    /\ ncalls < MaxCalls
    /\ self \in DOMAIN apps
    /\ LET r == Call(cache, clock + 1, "generate", self, apps[self],
                     req[1], req[1], req[2], req[3], resp)
       IN  /\ ApplyCall(r)
           /\ last' = r.rec
    /\ prev' = last
    /\ ncalls' = ncalls + 1
    /\ UNCHANGED apps

\* main(): app = BlogGeneratorApp(); app.run()
Main(initOK, pressed, ui, resp) ==
    /\ ncalls < MaxCalls
    /\ Len(apps) < MaxApps
    /\ LET self == Len(apps) + 1
           llm == IF initOK THEN "llm" ELSE None
           input_text == sanitize_input(ui[1])
           base == [NoOp EXCEPT !.op = "run", !.self = self, !.raw = ui[1],
                                !.topic = input_text, !.words = ui[3],
                                !.style = ui[2]]
       IN  /\ apps' = Append(apps, llm)
           /\ IF ~pressed
              THEN /\ last' = [NoOp EXCEPT !.op = "run", !.self = self]
                   /\ UNCHANGED <<cache, clock, nhits, firstKey>>
              ELSE IF input_text = << >>
              THEN /\ last' = [base EXCEPT !.ui = "warning"]
                   /\ UNCHANGED <<cache, clock, nhits, firstKey>>
              ELSE LET r == Call(cache, clock + 1, "run", self, llm,
                                 ui[1], input_text, ui[3], ui[2], resp)
                   IN  /\ ApplyCall(r)
                       /\ last' = Shown(r.rec)
    /\ prev' = last
    /\ ncalls' = ncalls + 1

Next ==
    \/ \E self \in 1..MaxApps, req \in Requests, resp \in Responses :
          Generate(self, req, resp)
    \/ \E initOK \in BOOLEAN, pressed \in BOOLEAN, ui \in UIInputs,
          resp \in Responses :
          Main(initOK, pressed, ui, resp)

Spec == Init /\ [][Next]_vars

\* the same operations, started on a cache that is (all but) full
NextFull ==
    \/ \E self \in 1..MaxApps, req \in FullRequests, resp \in Responses :
          Generate(self, req, resp)
    \/ \E initOK \in BOOLEAN, pressed \in BOOLEAN, ui \in FullUIInputs,
          resp \in Responses :
          Main(initOK, pressed, ui, resp)

SpecFull == InitFull /\ [][NextFull]_vars

\* ------------------------------------------------------------------ claims
SameRequest(a, b) ==
    /\ a.self = b.self
    /\ a.topic = b.topic
    /\ a.words = b.words
    /\ a.style = b.style

\* a request that satisfies the three validation rules of the specification
Valid(r) ==
    /\ strip(r.topic) # << >>
    /\ r.words >= 100 /\ r.words <= 1000
    /\ r.style \in {"technical", "professional", "casual", "academic", "creative"}

C2_ValidationFirst ==
    (last.called /\ ~Valid(last))
    => (last.msg \in {"RequiredFields", "WordCountRange"} /\ ~last.invoked)

\* C3: every entry of the cache holds a text returned by a successful model
\* call; failing calls store nothing.
C3_OnlySuccessCached ==
    \A i \in 1..Len(cache) : cache[i].val \in Texts

\* C4: the cache never holds more than 100 entries, and once 101 distinct keys
\* were inserted (no hit in between) it holds exactly the last 100 of them:
\* the first-inserted key is gone, the 100 others are present.
C4_CacheBound ==
    /\ Len(cache) <= 100
    /\ (nhits = 0 /\ clock = 101)
       => /\ Len(cache) = 100
          /\ firstKey \notin CacheKeys(cache)
          /\ \A j \in 2..101 : \E i \in 1..Len(cache) : cache[i].stamp = j

C4_Witness ==
    /\ nhits = 0
    /\ clock = 101
    /\ last.called /\ last.evStamp = 1

Content(c) == {[key |-> c[i].key, val |-> c[i].val, stamp |-> c[i].stamp] :
               i \in 1..Len(c)}

C5_Step ==
    last'.called =>
       /\ last'.hit =>
             /\ Content(cache') = Content(cache)
             /\ Len(cache') = Len(cache)
             /\ last'.evStamp = 0
             /\ \E i \in 1..Len(cache') :
                   /\ cache'[i].key = make_key(last'.self, last'.topic,
                                               last'.words, last'.style)
                   /\ cache'[i].used = clock'
       /\ last'.evStamp # 0 =>
             /\ Len(cache) = 100
             /\ \A i \in 1..Len(cache) : cache[i].used >= last'.evUsed
             /\ \A i \in 1..Len(cache') : cache'[i].stamp # last'.evStamp

C6_UnknownStyleRejected ==
    (last.called
     /\ last.style \notin {"technical", "professional", "casual", "academic", "creative"})
    => (last.ret = None /\ ~last.invoked)

C8_WordCountRule ==
    (/\ last.called /\ ~last.hit
     /\ apps[last.self] # None
     /\ last.topic # << >> /\ last.style # "")
    => /\ (last.msg = "WordCountRange") <=> (last.words < 100 \/ last.words > 1000)
       /\ (last.words < 100 \/ last.words > 1000) => (last.ret = None /\ ~last.invoked)
       /\ (last.words >= 100 /\ last.words <= 1000) => last.invoked

C8_Witness ==
    /\ last.called /\ ~last.hit
    /\ last.words = 1000
    /\ last.invoked
    /\ prev.called /\ prev.words = 1001 /\ prev.msg = "WordCountRange"

C9_Step ==
    /\ \A i \in DOMAIN apps : apps[i] = None => apps'[i] = None
    /\ (/\ last'.called /\ ~last'.hit
        /\ apps'[last'.self] = None
        /\ Valid(last'))
       => (last'.msg = "LLMNotInitialized" /\ last'.ret = None /\ ~last'.invoked)

\* C9: an app whose model failed to load keeps self.llm = None, and every
\* later call on it with a valid request that misses the cache reports the
\* unusable model and does not invoke it.
C9_GatewaySticky == [][C9_Step]_vars

C9_Witness ==
    /\ last.op = "generate" /\ ~last.hit
    /\ Valid(last)
    /\ apps[last.self] = None
    /\ last.msg = "LLMNotInitialized"
    /\ prev.called /\ prev.self = last.self

\* C10: every call that fails (returns None) surfaces an error to its caller.
C10_FailureSurfaced ==
    (last.called /\ last.ret = None) => last.msg # "none"

====
